---- MODULE Spec2Model ----
(***************************************************************************)
(* Model of the xcosm support library: authorization policies (auth.rs),   *)
(* the CoinSet balance container (coin.rs), its checked arithmetic         *)
(* (math.rs) and the basis-point distribution engine (fund.rs).            *)
(*                                                                         *)
(* The library is a set of synchronous functions over owned values.  The   *)
(* state of the model is the last call a client made: the operation, the   *)
(* arguments it was given and the value it returned.  Every action is one  *)
(* whole call of one public function, with its arguments drawn from the    *)
(* bounded input sets below; the functions share no state, so a client     *)
(* that has taken a result (Return) is back where it started.              *)
(***************************************************************************)
EXTENDS Integers, Sequences, FiniteSets

VARIABLES op, args, ret

vars == <<op, args, ret>>

(***************************************************************************)
(* Bounds of the model.                                                    *)
(***************************************************************************)

\* Longest list of requestors handed to the quorum checks.
MaxRequestors == 3

\* Largest `min` handed to authorize_at_least.
MaxMin == 3

\* Longest raw Vec<Coin> handed to the CoinSet constructor.
MaxCoins == 3

\* Longest list of expected coins handed to the expect_* checks.
MaxExpected == 2

\* Largest number of destinations handed to send_coins_many directly.
MaxOutputs == 2

\* Longest list of funds a message carries.
MaxFunds == 2

\* Longest run of in-place calls a client makes on one balance it holds.
MaxCalls == 3

(***************************************************************************)
(* Results: Result<T, XcosmError>.  An error is its kind (the enum         *)
(* variant) and the detail the variant carries.                            *)
(***************************************************************************)

Ok(v) == [ok |-> TRUE, val |-> v]

Err(e, d) == [ok |-> FALSE, err |-> e, detail |-> d]

\* The unit value of a CosmixResult<()>.
Unit == "()"

\* The set of all sequences over S of length at most n.
SeqsUpTo(S, n) == UNION {[1..k -> S] : k \in 0..n}

\* Vec::contains / slice::contains.
contains(list, x) == \E i \in 1..Len(list) : list[i] = x

(***************************************************************************)
(* auth.rs: Authorized<T>                                                  *)
(***************************************************************************)

Addrs == {"A", "B", "C", "D"}

\* A fixed listing of the addresses, used to write a set of them as a Vec.
AddrOrder == <<"A", "B", "C", "D">>

One(a) == [kind |-> "One", who |-> a]

Many(list) == [kind |-> "Many", who |-> list]

None == [kind |-> "None"]

Any == [kind |-> "Any"]

\* The policies the checks are run against: every One, the Many of every
\* subset of the addresses (listed in AddrOrder), None and Any.
Policies ==
  {One(a) : a \in Addrs}
    \cup {Many(SelectSeq(AddrOrder, LAMBDA a : a \in S)) : S \in SUBSET Addrs}
    \cup {None, Any}

authorize(self, requestor) ==
  CASE self.kind = "One" ->
         IF self.who # requestor THEN Err("Unauthorized", "") ELSE Ok(Unit)
    [] self.kind = "Many" ->
         IF ~contains(self.who, requestor) THEN Err("Unauthorized", "") ELSE Ok(Unit)
    [] self.kind = "None" -> Err("Unauthorized", "")
    [] self.kind = "Any" -> Ok(Unit)

authorize_any(self, requestors) ==
  LET pass == CASE self.kind = "One" -> contains(requestors, self.who)
                [] self.kind = "Many" ->
                     \E i \in 1..Len(requestors) : contains(self.who, requestors[i])
                [] self.kind = "None" -> FALSE
                [] self.kind = "Any" -> TRUE
  IN IF pass THEN Ok(Unit) ELSE Err("Unauthorized", "")

authorize_all(self, requestors) ==
  LET pass == CASE self.kind = "One" -> contains(requestors, self.who)
                [] self.kind = "Many" ->
                     \A i \in 1..Len(requestors) : contains(self.who, requestors[i])
                [] self.kind = "None" -> FALSE
                [] self.kind = "Any" -> TRUE
  IN IF pass THEN Ok(Unit) ELSE Err("Unauthorized", "")

authorize_at_least(self, requestors, min) ==
  LET pass == CASE self.kind = "One" -> contains(requestors, self.who)
                [] self.kind = "Many" ->
                     Cardinality({i \in 1..Len(requestors) :
                                    contains(self.who, requestors[i])}) >= min
                [] self.kind = "None" -> FALSE
                [] self.kind = "Any" -> TRUE
  IN IF pass THEN Ok(Unit) ELSE Err("Unauthorized", "")

(***************************************************************************)
(* Amounts: cosmwasm_std::Uint128 and u128.  TLC's integers are narrower   *)
(* than 128 bits, so an amount is written as the 16 bytes of the u128,     *)
(* least significant first (u128::to_le_bytes), and the arithmetic below   *)
(* is the schoolbook arithmetic on those bytes.  Two amounts are equal     *)
(* exactly when their bytes are.                                           *)
(***************************************************************************)

\* The positions of the bytes of a u128.
Bytes == 1..16

\* The u128 of a natural number below 2^31.
U128(n) ==
  [i \in Bytes |-> CASE i = 1 -> n % 256
                     [] i = 2 -> (n \div 256) % 256
                     [] i = 3 -> (n \div 65536) % 256
                     [] i = 4 -> n \div 16777216
                     [] OTHER -> 0]

\* u128::MAX / Uint128::MAX: 2^128 - 1.
U128Max == [i \in Bytes |-> 255]

\* The bytes of a + b from byte i up, c being the carry into byte i, and
\* after them the carry out of the top byte.
RECURSIVE add_from(_, _, _, _)
add_from(a, b, i, c) ==
  IF i > Len(a) THEN <<c>>
  ELSE LET t == a[i] + b[i] + c
       IN <<t % 256>> \o add_from(a, b, i + 1, t \div 256)

\* The bytes of a - b from byte i up, c being the borrow from byte i, and
\* after them the borrow out of the top byte.
RECURSIVE sub_from(_, _, _, _)
sub_from(a, b, i, c) ==
  IF i > Len(a) THEN <<c>>
  ELSE LET t == a[i] - b[i] - c
       IN <<(256 + t) % 256>> \o sub_from(a, b, i + 1, IF t < 0 THEN 1 ELSE 0)

\* The bytes of a * m from byte i up, c being the carry into byte i, and
\* after them what carried out of the top byte.
RECURSIVE mul_from(_, _, _, _)
mul_from(a, m, i, c) ==
  IF i > Len(a) THEN <<c>>
  ELSE LET t == a[i] * m + c
       IN <<t % 256>> \o mul_from(a, m, i + 1, t \div 256)

\* The bytes of the quotient a / m from byte i down to byte 1, lowest first,
\* r being the remainder left by the bytes above i, and before them the
\* remainder of the whole division.
RECURSIVE div_from(_, _, _, _)
div_from(a, m, i, r) ==
  IF i = 0 THEN <<r>>
  ELSE LET t == r * 256 + a[i]
       IN div_from(a, m, i - 1, t % m) \o <<t \div m>>

\* a + b on byte strings of one length: the sum's bytes (the sum modulo
\* 256^n) and the carry out of the top byte.
Add(a, b) ==
  LET s == add_from(a, b, 1, 0)
  IN [bytes |-> SubSeq(s, 1, Len(a)), carry |-> s[Len(a) + 1]]

\* a - b on byte strings of one length: the difference's bytes (modulo
\* 256^n) and the borrow out of the top byte, 1 exactly when b > a.
Sub(a, b) ==
  LET s == sub_from(a, b, 1, 0)
  IN [bytes |-> SubSeq(s, 1, Len(a)), borrow |-> s[Len(a) + 1]]

\* a * m for a natural m below 2^23: the product's low bytes and what
\* carried out of the top byte.
Mul(a, m) ==
  LET s == mul_from(a, m, 1, 0)
  IN [bytes |-> SubSeq(s, 1, Len(a)), carry |-> s[Len(a) + 1]]

\* a divided by a natural m in 1..2^23 - 1: the quotient's bytes and the
\* remainder.
Div(a, m) ==
  LET s == div_from(a, m, Len(a), 0)
  IN [bytes |-> SubSeq(s, 2, Len(a) + 1), rem |-> s[1]]

\* a < b on byte strings of one length.
Less(a, b) ==
  \E i \in 1..Len(a) :
    a[i] < b[i] /\ \A j \in (i + 1)..Len(a) : a[j] = b[j]

\* (a + b) mod 2^128: the sum an unchecked, wrapping add would store.
wrapping_add(a, b) == Ok(Add(a, b).bytes)

\* Uint128::checked_add: Err on overflow, else the sum.
checked_add(a, b) ==
  LET s == Add(a, b)
  IN IF s.carry # 0 THEN Err("Overflow", "") ELSE Ok(s.bytes)

\* Uint128::checked_sub: Err when the result would be negative.
checked_sub(a, b) ==
  LET s == Sub(a, b)
  IN IF s.borrow # 0 THEN Err("Overflow", "") ELSE Ok(s.bytes)

\* u128::checked_mul by `bps as u128`, bps a u32 that the model keeps as a
\* natural: None (here Err) when the product does not fit in 128 bits.
checked_mul(a, bps) ==
  LET s == Mul(a, bps)
  IN IF s.carry # 0 THEN Err("None", "") ELSE Ok(s.bytes)

\* u128::checked_div by a literal divisor: None (here Err) when it is zero.
checked_div(a, divisor) ==
  IF divisor = 0 THEN Err("None", "") ELSE Ok(Div(a, divisor).bytes)

(***************************************************************************)
(* coin.rs: CoinSet, a BTreeMap<String, Uint128>.  A CoinSet is a function *)
(* from the denoms it holds to their amounts; a BTreeMap iterates in key   *)
(* order, which DenomOrder gives for the denoms of the model.              *)
(***************************************************************************)

DenomOrder == <<"ua", "ub", "uc">>

Denoms == {DenomOrder[i] : i \in 1..Len(DenomOrder)}

Coin(d, a) == [denom |-> d, amount |-> a]

\* CoinSet::default(): the empty map.
EmptyCoinSet == <<>>

\* Every CoinSet over the denoms D with amounts in A.
CoinSetsOver(D, A) == UNION {[S -> A] : S \in SUBSET D}

\* The keys of a CoinSet in BTreeMap iteration order.
keys(self) == SelectSeq(DenomOrder, LAMBDA d : d \in DOMAIN self)

\* BTreeMap::insert on a vacant or occupied entry: the map with denom set.
map_insert(self, denom, amount) ==
  [d \in DOMAIN self \cup {denom} |-> IF d = denom THEN amount ELSE self[d]]

\* A mutating method's outcome: the receiver afterwards and the value returned.
Mut(self, r) == [self |-> self, ret |-> r]

\* try_insert with the occupied entry overwritten instead of rejected.
try_insert_overwrite(self, denom, amount) ==
  Mut(map_insert(self, denom, amount), Ok(amount))

try_insert(self, denom, amount) ==
  IF denom \in DOMAIN self
    THEN Mut(self, Err("DuplicateDenom", denom))
    ELSE Mut(map_insert(self, denom, amount), Ok(amount))

\* Option<Uint128>: Some(v) and None.
Some(v) == [some |-> TRUE, val |-> v]

Nothing == [some |-> FALSE]

\* The methods of the inner BTreeMap that #[derive(DerefMut)] hands to the
\* holder of a CoinSet: insert sets the denom and returns the amount it
\* replaced, remove drops the denom and returns its amount, clear empties
\* the map.
insert(self, denom, amount) ==
  Mut(map_insert(self, denom, amount),
      IF denom \in DOMAIN self THEN Some(self[denom]) ELSE Nothing)

remove(self, denom) ==
  IF denom \in DOMAIN self
    THEN Mut([d \in DOMAIN self \ {denom} |-> self[d]], Some(self[denom]))
    ELSE Mut(self, Nothing)

clear(self) == Mut(EmptyCoinSet, Unit)

\* DerefMut::deref_mut: the holder is handed &mut BTreeMap<String, Uint128>
\* and makes one call on it.  Whatever the method (extend, append, retain,
\* split_off, values_mut, iter_mut, pop_first, ...), the call drops some of
\* the entries the map holds, `dropped`, sets some entries, `written`, held
\* before or not, and leaves every other entry as it was; a call that drops
\* and writes nothing leaves the map as it was.  The method either hands back
\* the entries it took out (split_off) or returns ().
deref_mut(self, dropped, written, returns_entries) ==
  Mut([d \in (DOMAIN self \ dropped) \cup DOMAIN written |->
         IF d \in DOMAIN written THEN written[d] ELSE self[d]],
      IF returns_entries THEN [d \in dropped |-> self[d]] ELSE Unit)

\* IntoIterator for &CoinSet / into_vec / Into<Vec<Coin>>: the coins in
\* denom order.
into_vec(self) ==
  [i \in 1..Len(keys(self)) |-> Coin(keys(self)[i], self[keys(self)[i]])]

\* The for loop of try_into_coin_set from the i-th coin of raw on.
RECURSIVE insert_each(_, _, _)
insert_each(coins, raw, i) ==
  IF i > Len(raw)
    THEN Ok(coins)
    ELSE LET r == try_insert(coins, raw[i].denom, raw[i].amount)
         IN IF r.ret.ok THEN insert_each(r.self, raw, i + 1) ELSE r.ret

try_into_coin_set(raw) == insert_each(EmptyCoinSet, raw, 1)

\* Iterator::collect::<Result<Vec<_>, _>>(): the first error in order, else
\* the values.
collect(results) ==
  IF \E i \in 1..Len(results) : ~results[i].ok
    THEN results[CHOOSE i \in 1..Len(results) :
                   /\ ~results[i].ok
                   /\ \A j \in 1..(i - 1) : results[j].ok]
    ELSE Ok([i \in 1..Len(results) |-> results[i].val])

expect_coin(self, expected) ==
  IF expected.denom \in DOMAIN self /\ ~Less(self[expected.denom], expected.amount)
    THEN Ok(self[expected.denom])
    ELSE Err("Insufficient", expected.denom)

expect_coin_exact(self, expected) ==
  LET r == expect_coin(self, expected)
  IN IF ~r.ok THEN r
     ELSE IF r.val # expected.amount THEN Err("NotExact", expected)
     ELSE Ok(Unit)

expect_coins(self, expected) ==
  LET r == collect([i \in 1..Len(expected) |-> expect_coin(self, expected[i])])
  IN IF r.ok THEN Ok(Unit) ELSE r

expect_coins_exact(self, expected) ==
  LET r == collect([i \in 1..Len(expected) |-> expect_coin_exact(self, expected[i])])
  IN IF r.ok THEN Ok(Unit) ELSE r

expect_none(self) ==
  IF DOMAIN self # {} THEN Err("NotEmpty", "") ELSE Ok(Unit)

(***************************************************************************)
(* math.rs: checked arithmetic on a CoinSet.  Each loop visits the denoms  *)
(* of `other` in key order; entry(..).and_modify(..) touches only a denom  *)
(* the receiver already holds, and a failed checked operation sets is_err  *)
(* and leaves the amount as it was.                                        *)
(***************************************************************************)

\* The loop of try_plus with entry(..).or_insert(..) in place of and_modify:
\* a denom the receiver does not hold is inserted with the other's amount.
RECURSIVE plus_each_inserting(_, _, _, _)
plus_each_inserting(res, is_err, other, ds) ==
  IF ds = <<>>
    THEN [coins |-> res, is_err |-> is_err]
    ELSE LET d == Head(ds)
             r == checked_add(res[d], other[d])
         IN IF d \notin DOMAIN res
              THEN plus_each_inserting(map_insert(res, d, other[d]), is_err,
                                       other, Tail(ds))
            ELSE IF r.ok
              THEN plus_each_inserting([res EXCEPT ![d] = r.val], is_err,
                                       other, Tail(ds))
            ELSE plus_each_inserting(res, TRUE, other, Tail(ds))

\* The loop of try_plus / try_plus_mut (&CoinSet) over the denoms ds.
RECURSIVE plus_each(_, _, _, _)
plus_each(res, is_err, other, ds) ==
  IF ds = <<>>
    THEN [coins |-> res, is_err |-> is_err]
    ELSE LET d == Head(ds)
             r == checked_add(res[d], other[d])
         IN IF d \notin DOMAIN res THEN plus_each(res, is_err, other, Tail(ds))
            ELSE IF r.ok
              THEN plus_each([res EXCEPT ![d] = r.val], is_err, other, Tail(ds))
            ELSE plus_each(res, TRUE, other, Tail(ds))

\* The loop of try_minus with a return at the first failed subtraction: the
\* denoms after it are not visited.
RECURSIVE minus_each_aborting(_, _, _, _)
minus_each_aborting(res, is_err, other, ds) ==
  IF ds = <<>>
    THEN [coins |-> res, is_err |-> is_err]
    ELSE LET d == Head(ds)
             r == checked_sub(res[d], other[d])
         IN IF d \notin DOMAIN res
              THEN minus_each_aborting(res, is_err, other, Tail(ds))
            ELSE IF r.ok
              THEN minus_each_aborting([res EXCEPT ![d] = r.val], is_err,
                                       other, Tail(ds))
            ELSE [coins |-> res, is_err |-> TRUE]

\* The loop of try_minus / try_minus_mut (&CoinSet) over the denoms ds.
RECURSIVE minus_each(_, _, _, _)
minus_each(res, is_err, other, ds) ==
  IF ds = <<>>
    THEN [coins |-> res, is_err |-> is_err]
    ELSE LET d == Head(ds)
             r == checked_sub(res[d], other[d])
         IN IF d \notin DOMAIN res THEN minus_each(res, is_err, other, Tail(ds))
            ELSE IF r.ok
              THEN minus_each([res EXCEPT ![d] = r.val], is_err, other, Tail(ds))
            ELSE minus_each(res, TRUE, other, Tail(ds))

\* TryPlus<&Coin> for CoinSet.
try_plus_coin(self, other) ==
  LET d == other.denom
      r == checked_add(self[d], other.amount)
  IN IF d \notin DOMAIN self THEN Ok(self)
     ELSE IF r.ok THEN Ok([self EXCEPT ![d] = r.val])
     ELSE Err("Overflow", "")

\* TryPlus<&CoinSet> for CoinSet.
try_plus_coin_set(self, other) ==
  LET l == plus_each(self, FALSE, other, keys(other))
  IN IF l.is_err THEN Err("Overflow", "") ELSE Ok(l.coins)

\* TryPlusMut<&Coin> for CoinSet.  The closure calls checked_sub and the
\* error returned is Underflow.
try_plus_mut_coin(self, other) ==
  LET d == other.denom
      r == checked_sub(self[d], other.amount)
  IN IF d \notin DOMAIN self THEN Mut(self, Ok(Unit))
     ELSE IF r.ok THEN Mut([self EXCEPT ![d] = r.val], Ok(Unit))
     ELSE Mut(self, Err("Underflow", ""))

\* TryPlusMut<&CoinSet> for CoinSet.
try_plus_mut_coin_set(self, other) ==
  LET l == plus_each(self, FALSE, other, keys(other))
  IN Mut(l.coins, IF l.is_err THEN Err("Overflow", "") ELSE Ok(Unit))

\* TryMinus<&Coin> for CoinSet.
try_minus_coin(self, other) ==
  LET d == other.denom
      r == checked_sub(self[d], other.amount)
  IN IF d \notin DOMAIN self THEN Ok(self)
     ELSE IF r.ok THEN Ok([self EXCEPT ![d] = r.val])
     ELSE Err("Underflow", "")

\* TryMinus<&CoinSet> for CoinSet.
try_minus_coin_set(self, other) ==
  LET l == minus_each(self, FALSE, other, keys(other))
  IN IF l.is_err THEN Err("Underflow", "") ELSE Ok(l.coins)

\* TryMinusMut<&Coin> for CoinSet.
try_minus_mut_coin(self, other) ==
  LET d == other.denom
      r == checked_sub(self[d], other.amount)
  IN IF d \notin DOMAIN self THEN Mut(self, Ok(Unit))
     ELSE IF r.ok THEN Mut([self EXCEPT ![d] = r.val], Ok(Unit))
     ELSE Mut(self, Err("Underflow", ""))

\* TryMinusMut<&CoinSet> for CoinSet.
try_minus_mut_coin_set(self, other) ==
  LET l == minus_each(self, FALSE, other, keys(other))
  IN Mut(l.coins, IF l.is_err THEN Err("Underflow", "") ELSE Ok(Unit))

(***************************************************************************)
(* coin.rs: send_coins_many, the cosmwasm_2_0 build (the other build of    *)
(* the function does not type-check and is never compiled in).             *)
(***************************************************************************)

\* The (address, coin) pairs the two nested loops of send_coins_many visit,
\* in order: the destinations in list order, each one's coins in denom order.
RECURSIVE out_pairs(_)
out_pairs(to) ==
  IF to = <<>>
    THEN <<>>
    ELSE LET cs == into_vec(Head(to).coins)
         IN [i \in 1..Len(cs) |-> [address |-> Head(to).addr, coin |-> cs[i]]]
              \o out_pairs(Tail(to))

\* The loops of send_coins_many from the i-th pair on: subtract the coin from
\* rem, then push one output for it.
RECURSIVE send_each(_, _, _, _)
send_each(rem, outputs, pairs, i) ==
  IF i > Len(pairs)
    THEN Ok([rem |-> rem, outputs |-> outputs])
    ELSE LET m == try_minus_mut_coin(rem, pairs[i].coin)
         IN IF ~m.ret.ok
              THEN Err("Insufficient", pairs[i].coin)
              ELSE send_each(m.self,
                             Append(outputs, [address |-> pairs[i].address,
                                              coins |-> <<pairs[i].coin>>]),
                             pairs, i + 1)

\* The CosmosMsg::Any carrying a BankMsgMultiSend.
MultiSendMsg(inputs, outputs) ==
  [type_url |-> "/cosmos.bank.v1beta1.MsgMultiSend",
   value |-> [inputs |-> inputs, outputs |-> outputs]]

send_coins_many(coins, from, to) ==
  LET l == send_each(coins, <<>>, out_pairs(to), 1)
  IN IF ~l.ok THEN l
     ELSE IF ~expect_none(l.val.rem).ok THEN Err("IoMismatch", "")
     ELSE Ok(MultiSendMsg(<<[address |-> from, coins |-> into_vec(coins)]>>,
                          l.val.outputs))

\* CoinSet::send_many.
send_many(self, from, output) == send_coins_many(self, from, output)

(***************************************************************************)
(* fund.rs: Claim(u32), a share in basis points, and Distribution, a       *)
(* HashMap<Addr, Claim>.  A Claim is its bps; a Distribution is a function *)
(* from the addresses that hold a claim to their bps.                      *)
(***************************************************************************)

\* The divisor of claim_amount.
ClaimDivisor == 100000

\* The largest total of a distribution's claims: 100%.
FullBps == 10000

claim_amount(self, total) ==
  LET m == checked_mul(total, self)
      q == checked_div(m.val, ClaimDivisor)
  IN IF ~m.ok THEN Err("Overflow", "")
     ELSE IF ~q.ok THEN Err("DivideByZero", "")
     ELSE Ok(q.val)

\* Claim::claim: claim_amount of every amount of funds, in denom order,
\* stopping at the first error.
claim(self, funds) ==
  LET ks == keys(funds)
      r == collect([i \in 1..Len(ks) |-> claim_amount(self, funds[ks[i]])])
  IN IF ~r.ok THEN r
     ELSE Ok([d \in DOMAIN funds |->
                r.val[CHOOSE i \in 1..Len(ks) : ks[i] = d]])

\* The sum of the bps of the claims of the addresses S, as a natural number.
RECURSIVE bps_sum(_, _)
bps_sum(self, S) ==
  IF S = {} THEN 0
  ELSE LET a == CHOOSE x \in S : TRUE IN self[a] + bps_sum(self, S \ {a})

\* A u32 as its two 16-bit halves, so that a sum past 2^31 can be written.
U32(b) == [hi |-> b \div 65536, lo |-> b % 65536]

\* Iterator::sum::<u32>() over the claims of the addresses S: the fold of
\* a + b from 0, in 32 bits.  `overflowed` records that some a + b went past
\* 2^32 - 1; hi and lo are the halves of the sum modulo 2^32.
RECURSIVE sum_u32(_, _)
sum_u32(self, S) ==
  IF S = {} THEN [hi |-> 0, lo |-> 0, overflowed |-> FALSE]
  ELSE LET x == CHOOSE y \in S : TRUE
           a == sum_u32(self, S \ {x})
           b == U32(self[x])
           lo == a.lo + b.lo
           hi == a.hi + b.hi + lo \div 65536
       IN [hi |-> hi % 65536, lo |-> lo % 65536,
           overflowed |-> a.overflowed \/ hi >= 65536]

\* A panic of the thread: the call returns nothing.
Panic(msg) == Err("Panic", msg)

\* Distribution::total_bps.  The sum is a plain u32 addition: when it passes
\* 2^32 - 1 a build with overflow checks panics and a build without them
\* goes on with the sum modulo 2^32.
total_bps(self, overflow_checks) ==
  LET total == sum_u32(self, DOMAIN self)
  IN IF total.overflowed /\ overflow_checks
       THEN Panic("attempt to add with overflow")
     ELSE IF total.hi > 0 \/ total.lo > FullBps
       THEN Err("DistributionOverclaimed", "")
     ELSE Ok(total.lo)

\* Distribution::with_remainder_to.
with_remainder_to(self, addr, overflow_checks) ==
  LET t == total_bps(self, overflow_checks)
      rem_claim == FullBps - t.val
  IN IF ~t.ok THEN t
     ELSE IF addr \in DOMAIN self
       THEN Ok([self EXCEPT ![addr] = self[addr] + rem_claim])
     ELSE Ok(map_insert(self, addr, rem_claim))

\* The closure distribute_coins maps over the claims, from the i-th claim of
\* the iteration order on, collected into a Result<Vec<_>, _>: each claim's
\* share of funds, subtracted from rem as it is computed.
RECURSIVE claim_each(_, _, _, _, _, _)
claim_each(self, funds, order, i, rem, claimed) ==
  IF i > Len(order)
    THEN Ok([rem |-> rem, claimed |-> claimed])
    ELSE LET c == claim(self[order[i]], funds)
             m == try_minus_mut_coin_set(rem, c.val)
         IN IF ~c.ok THEN c
            ELSE IF ~m.ret.ok THEN m.ret
            ELSE claim_each(self, funds, order, i + 1, m.self,
                            Append(claimed, [addr |-> order[i], coins |-> c.val]))

\* Distribution::distribute_coins.  `order` is the order in which the HashMap
\* of claims iterates, which the code does not control.
distribute_coins(self, from, funds, order) ==
  LET l == claim_each(self, funds, order, 1, funds, <<>>)
      first == try_plus_mut_coin_set(l.val.claimed[1].coins, l.val.rem)
      claimed == [l.val.claimed EXCEPT ![1].coins = first.self]
  IN IF DOMAIN self = {} THEN Err("DistributionUnclaimed", "")
     ELSE IF ~l.ok THEN l
     ELSE IF ~first.ret.ok THEN first.ret
     ELSE send_many(funds, from, claimed)

\* MessageFunds for MessageInfo.  `funds` is MessageInfo::funds, a Vec<Coin>.
fund_set(funds) == try_into_coin_set(funds)

expect_funds(funds, expected) ==
  LET s == fund_set(funds)
  IN IF ~s.ok THEN s ELSE expect_coins_exact(s.val, expected)

expect_funds_exact(funds, expected) ==
  LET s == fund_set(funds)
  IN IF ~s.ok THEN s ELSE expect_coins_exact(s.val, expected)

(***************************************************************************)
(* Inputs of the calls.                                                    *)
(***************************************************************************)

\* Amounts for the arithmetic: the small ones and the largest.
ArithAmounts == {U128(0), U128(1), U128Max}

\* Amounts for constructing and inspecting balances.
SmallAmounts == {U128(0), U128(1), U128(2)}

ArithCoinSets == CoinSetsOver(Denoms, ArithAmounts)

SmallCoinSets == CoinSetsOver(Denoms, SmallAmounts)

SmallCoins == {Coin(d, a) : d \in Denoms, a \in SmallAmounts}

\* Single coins for the arithmetic.
ArithCoins == {Coin(d, a) : d \in Denoms, a \in ArithAmounts}

\* The denoms of the funds and of the balances a client holds.
FundDenoms == {"ua", "ub"}

\* Balances a client holds and changes in place, and the balances it hands
\* to the in-place calls.
HeldCoinSets == CoinSetsOver(FundDenoms, ArithAmounts)

\* Coins a message carries as funds, and coins a handler expects of it.
FundCoins == {Coin(d, a) : d \in FundDenoms, a \in SmallAmounts}

\* The entries the holder of a &mut BTreeMap may set in one call.
WrittenCoinSets == ArithCoinSets

\* Largest of the small totals handed to claim_amount.
SmallTotal == 100

\* Totals for claim_amount: the small ones, the two around the largest total
\* whose product with 10000 bps still fits, and the largest amounts.
Totals ==
  {U128(n) : n \in 0..SmallTotal}
    \cup {Div(U128Max, FullBps).bytes,
          Add(Div(U128Max, FullBps).bytes, U128(1)).bytes,
          Sub(U128Max, U128(1)).bytes,
          U128Max}

\* Shares for claim_amount.
ClaimBps == {0, 1, 3333, 5000, 10000, 10001}

\* Addresses that may hold a claim, and the shares they may hold.
DistAddrs == {"A", "B", "C"}

DistBps == {3333, 5000, 10000, 10001}

Distributions == UNION {[S -> DistBps] : S \in SUBSET DistAddrs}

\* Shares for the totals: the small ones and a third of 2^32 rounded up,
\* three of which sum to 2^32 + 2.  (Every share of the model, with a
\* remainder of up to 10000 bps added to it, stays below 2^31.)
WideBps == {0, 2, 5000, 10000, 10001, 1431655766}

WideDistributions == UNION {[S -> WideBps] : S \in SUBSET DistAddrs}

\* Funds to distribute.
FundCoinSets == CoinSetsOver(FundDenoms, {U128(0), U128(100), U128Max})

\* The orders in which a HashMap holding the keys S may iterate.
Orders(S) ==
  {o \in [1..Cardinality(S) -> S] :
     \A i, j \in 1..Cardinality(S) : i # j => o[i] # o[j]}

\* Balances and destinations handed to send_coins_many directly.
SendCoinSets == CoinSetsOver(FundDenoms, SmallAmounts)

SendOutputs ==
  {[addr |-> a, coins |-> c] : a \in {"A", "B"}, c \in CoinSetsOver(FundDenoms, {U128(0), U128(1)})}

(***************************************************************************)
(* The calls: each action is one call of a public function by a client.    *)
(***************************************************************************)

\* No call is in progress and none has returned.
Idle == op = "idle"

Init == op = "idle" /\ args = <<>> /\ ret = Ok(Unit)

Authorize ==
  /\ Idle
  /\ \E self \in Policies, requestor \in Addrs :
       /\ op' = "authorize"
       /\ args' = [self |-> self, requestor |-> requestor]
       /\ ret' = authorize(self, requestor)

AuthorizeAny ==
  /\ Idle
  /\ \E self \in Policies, requestors \in SeqsUpTo(Addrs, MaxRequestors) :
       /\ op' = "authorize_any"
       /\ args' = [self |-> self, requestors |-> requestors]
       /\ ret' = authorize_any(self, requestors)

AuthorizeAll ==
  /\ Idle
  /\ \E self \in Policies, requestors \in SeqsUpTo(Addrs, MaxRequestors) :
       /\ op' = "authorize_all"
       /\ args' = [self |-> self, requestors |-> requestors]
       /\ ret' = authorize_all(self, requestors)

AuthorizeAtLeast ==
  /\ Idle
  /\ \E self \in Policies, requestors \in SeqsUpTo(Addrs, MaxRequestors),
        min \in 0..MaxMin :
       /\ op' = "authorize_at_least"
       /\ args' = [self |-> self, requestors |-> requestors, min |-> min]
       /\ ret' = authorize_at_least(self, requestors, min)

TryIntoCoinSet ==
  /\ Idle
  /\ \E raw \in SeqsUpTo(SmallCoins, MaxCoins) :
       /\ op' = "try_into_coin_set"
       /\ args' = [raw |-> raw]
       /\ ret' = try_into_coin_set(raw)

ExpectCoinsExact ==
  /\ Idle
  /\ \E self \in SmallCoinSets, expected \in SeqsUpTo(SmallCoins, MaxExpected) :
       /\ op' = "expect_coins_exact"
       /\ args' = [self |-> self, expected |-> expected]
       /\ ret' = expect_coins_exact(self, expected)

TryPlusCoinSet ==
  /\ Idle
  /\ \E self \in ArithCoinSets, other \in ArithCoinSets :
       /\ op' = "try_plus_coin_set"
       /\ args' = [self |-> self, other |-> other]
       /\ ret' = try_plus_coin_set(self, other)

TryMinusCoinSet ==
  /\ Idle
  /\ \E self \in ArithCoinSets, other \in ArithCoinSets :
       /\ op' = "try_minus_coin_set"
       /\ args' = [self |-> self, other |-> other]
       /\ ret' = try_minus_coin_set(self, other)

TryPlusCoin ==
  /\ Idle
  /\ \E self \in ArithCoinSets, other \in ArithCoins :
       /\ op' = "try_plus_coin"
       /\ args' = [self |-> self, other |-> other]
       /\ ret' = try_plus_coin(self, other)

TryMinusCoin ==
  /\ Idle
  /\ \E self \in ArithCoinSets, other \in ArithCoins :
       /\ op' = "try_minus_coin"
       /\ args' = [self |-> self, other |-> other]
       /\ ret' = try_minus_coin(self, other)

\* The calls that take &mut self.  When such a call has returned the client
\* may keep the balance as the call left it (Keep) and call again on it.
\* While it holds a balance, args.self is that balance, args.calls the number
\* of calls made on it so far, and args.denoms the denoms it held before the
\* first call of the unbroken run of arithmetic calls, InPlaceOps, made last
\* on it (the denoms it holds now, when the last call was not arithmetic).
InPlaceOps ==
  {"try_plus_mut_coin", "try_plus_mut_coin_set",
   "try_minus_mut_coin", "try_minus_mut_coin_set"}

\* The calls by &mut self that are not arithmetic.
MapOps == {"try_insert", "insert", "remove", "clear", "deref_mut"}

\* The client holds a balance it has changed in place and may change again.
Holding == op = "holding"

\* The balances the next call by &mut self may be made on.
Receivers == IF Idle THEN HeldCoinSets ELSE {args.self}

\* The denoms held when the run of arithmetic calls that this call on self
\* belongs to began.
DenomsAtStart(self) == IF Idle THEN DOMAIN self ELSE args.denoms

\* The number of calls made on the held balance so far.
CallsSoFar == IF Idle THEN 0 ELSE args.calls

\* The call by &mut self has returned and the client keeps the balance.
Keep ==
  /\ op \in InPlaceOps \cup MapOps
  /\ args.calls < MaxCalls
  /\ op' = "holding"
  /\ args' = [self |-> ret.self,
              denoms |-> IF op \in InPlaceOps THEN args.denoms ELSE DOMAIN ret.self,
              calls |-> args.calls]
  /\ ret' = Ok(Unit)

TryInsert ==
  /\ Idle \/ Holding
  /\ \E self \in Receivers, denom \in Denoms, amount \in ArithAmounts :
       /\ op' = "try_insert"
       /\ args' = [self |-> self, denom |-> denom, amount |-> amount,
                   calls |-> CallsSoFar + 1]
       /\ ret' = try_insert(self, denom, amount)

Insert ==
  /\ Idle \/ Holding
  /\ \E self \in Receivers, denom \in Denoms, amount \in ArithAmounts :
       /\ op' = "insert"
       /\ args' = [self |-> self, denom |-> denom, amount |-> amount,
                   calls |-> CallsSoFar + 1]
       /\ ret' = insert(self, denom, amount)

Remove ==
  /\ Idle \/ Holding
  /\ \E self \in Receivers, denom \in Denoms :
       /\ op' = "remove"
       /\ args' = [self |-> self, denom |-> denom, calls |-> CallsSoFar + 1]
       /\ ret' = remove(self, denom)

Clear ==
  /\ Idle \/ Holding
  /\ \E self \in Receivers :
       /\ op' = "clear"
       /\ args' = [self |-> self, calls |-> CallsSoFar + 1]
       /\ ret' = clear(self)

DerefMut ==
  /\ Idle \/ Holding
  /\ \E self \in Receivers, written \in WrittenCoinSets,
        returns_entries \in BOOLEAN :
       \E dropped \in SUBSET (DOMAIN self \ DOMAIN written) :
         /\ op' = "deref_mut"
         /\ args' = [self |-> self, dropped |-> dropped, written |-> written,
                     returns_entries |-> returns_entries,
                     calls |-> CallsSoFar + 1]
         /\ ret' = deref_mut(self, dropped, written, returns_entries)

TryPlusMutCoin ==
  /\ Idle \/ Holding
  /\ \E self \in Receivers, other \in ArithCoins :
       /\ op' = "try_plus_mut_coin"
       /\ args' = [self |-> self, other |-> other,
                   denoms |-> DenomsAtStart(self), calls |-> CallsSoFar + 1]
       /\ ret' = try_plus_mut_coin(self, other)

TryPlusMutCoinSet ==
  /\ Idle \/ Holding
  /\ \E self \in Receivers, other \in HeldCoinSets :
       /\ op' = "try_plus_mut_coin_set"
       /\ args' = [self |-> self, other |-> other,
                   denoms |-> DenomsAtStart(self), calls |-> CallsSoFar + 1]
       /\ ret' = try_plus_mut_coin_set(self, other)

TryMinusMutCoin ==
  /\ Idle \/ Holding
  /\ \E self \in Receivers, other \in ArithCoins :
       /\ op' = "try_minus_mut_coin"
       /\ args' = [self |-> self, other |-> other,
                   denoms |-> DenomsAtStart(self), calls |-> CallsSoFar + 1]
       /\ ret' = try_minus_mut_coin(self, other)

TryMinusMutCoinSet ==
  /\ Idle \/ Holding
  /\ \E self \in Receivers, other \in HeldCoinSets :
       /\ op' = "try_minus_mut_coin_set"
       /\ args' = [self |-> self, other |-> other,
                   denoms |-> DenomsAtStart(self), calls |-> CallsSoFar + 1]
       /\ ret' = try_minus_mut_coin_set(self, other)

ClaimAmount ==
  /\ Idle
  /\ \E self \in ClaimBps, total \in Totals :
       /\ op' = "claim_amount"
       /\ args' = [self |-> self, total |-> total]
       /\ ret' = claim_amount(self, total)

TotalBps ==
  /\ Idle
  /\ \E self \in WideDistributions, overflow_checks \in BOOLEAN :
       /\ op' = "total_bps"
       /\ args' = [self |-> self, overflow_checks |-> overflow_checks]
       /\ ret' = total_bps(self, overflow_checks)

WithRemainderTo ==
  /\ Idle
  /\ \E self \in WideDistributions, addr \in Addrs, overflow_checks \in BOOLEAN :
       /\ op' = "with_remainder_to"
       /\ args' = [self |-> self, addr |-> addr,
                   overflow_checks |-> overflow_checks]
       /\ ret' = with_remainder_to(self, addr, overflow_checks)

SendCoinsMany ==
  /\ Idle
  /\ \E coins \in SendCoinSets, to \in SeqsUpTo(SendOutputs, MaxOutputs) :
       /\ op' = "send_coins_many"
       /\ args' = [coins |-> coins, from |-> "D", to |-> to]
       /\ ret' = send_coins_many(coins, "D", to)

DistributeCoins ==
  /\ Idle
  /\ \E self \in Distributions, funds \in FundCoinSets :
       \E order \in Orders(DOMAIN self) :
         /\ op' = "distribute_coins"
         /\ args' = [self |-> self, from |-> "D", funds |-> funds, order |-> order]
         /\ ret' = distribute_coins(self, "D", funds, order)

ExpectFunds ==
  /\ Idle
  /\ \E funds \in SeqsUpTo(FundCoins, MaxFunds),
        expected \in SeqsUpTo(FundCoins, MaxExpected) :
       /\ op' = "expect_funds"
       /\ args' = [funds |-> funds, expected |-> expected]
       /\ ret' = expect_funds(funds, expected)

ExpectFundsExact ==
  /\ Idle
  /\ \E funds \in SeqsUpTo(FundCoins, MaxFunds),
        expected \in SeqsUpTo(FundCoins, MaxExpected) :
       /\ op' = "expect_funds_exact"
       /\ args' = [funds |-> funds, expected |-> expected]
       /\ ret' = expect_funds_exact(funds, expected)

\* The client takes the result of the call.
Return ==
  /\ ~Idle
  /\ op' = "idle"
  /\ args' = <<>>
  /\ ret' = Ok(Unit)

Next ==
  \/ Return
  \/ Keep
  \/ Authorize
  \/ AuthorizeAny
  \/ AuthorizeAll
  \/ AuthorizeAtLeast
  \/ TryIntoCoinSet
  \/ ExpectCoinsExact
  \/ TryPlusCoinSet
  \/ TryMinusCoinSet
  \/ TryPlusCoin
  \/ TryMinusCoin
  \/ TryInsert
  \/ Insert
  \/ Remove
  \/ Clear
  \/ DerefMut
  \/ TryPlusMutCoin
  \/ TryPlusMutCoinSet
  \/ TryMinusMutCoin
  \/ TryMinusMutCoinSet
  \/ ClaimAmount
  \/ TotalBps
  \/ WithRemainderTo
  \/ ExpectFunds
  \/ ExpectFundsExact
  \/ SendCoinsMany
  \/ DistributeCoins

Spec == Init /\ [][Next]_vars

(***************************************************************************)
(* Claims about auth.rs                                                    *)
(***************************************************************************)

\* Number of requestors of the list that pass authorize on their own.
PassCount(self, requestors) ==
  Cardinality({i \in 1..Len(requestors) : authorize(self, requestors[i]).ok})

\* C6: authorize_all succeeds if and only if every requestor of the list
\* passes authorize individually (so One(A) rejects [A, D]).
C6_AuthorizeAllIffEvery ==
  op = "authorize_all" =>
    (ret.ok <=> \A i \in 1..Len(args.requestors) :
                  authorize(args.self, args.requestors[i]).ok)

\* C7: authorize_at_least succeeds if and only if the number of requestors
\* that pass authorize individually is at least min.
C7_AuthorizeAtLeastIffCount ==
  op = "authorize_at_least" =>
    (ret.ok <=> PassCount(args.self, args.requestors) >= args.min)

(***************************************************************************)
(* Claims about coin.rs                                                    *)
(***************************************************************************)

\* Some denom occurs at two places of the raw list.
HasDuplicate(raw) ==
  \E i, j \in 1..Len(raw) : i < j /\ raw[i].denom = raw[j].denom

\* C8: constructing a CoinSet from a raw list fails with DuplicateDenom if
\* and only if some denom occurs twice anywhere in the list (no balance is
\* returned); otherwise it succeeds with exactly one entry per pair, holding
\* that pair's amount, zero amounts included.
C8_DuplicateRejection ==
  op = "try_into_coin_set" =>
    IF HasDuplicate(args.raw)
      THEN ~ret.ok /\ ret.err = "DuplicateDenom"
      ELSE /\ ret.ok
           /\ DOMAIN ret.val = {args.raw[i].denom : i \in 1..Len(args.raw)}
           /\ \A i \in 1..Len(args.raw) :
                ret.val[args.raw[i].denom] = args.raw[i].amount

\* C8 witness: a list whose first and last coins share a denom, with another
\* denom between them, was rejected.
C8_Witness ==
  /\ op = "try_into_coin_set"
  /\ Len(args.raw) = 3
  /\ args.raw[1].denom = args.raw[3].denom
  /\ args.raw[2].denom # args.raw[1].denom
  /\ ~ret.ok

\* C9: expect_coins_exact succeeds only if the balance equals the expected
\* set: every expected coin present with exactly the expected amount and no
\* denom of the balance outside the expected ones.
C9_ExactIsWholeBalance ==
  (op = "expect_coins_exact" /\ ret.ok) =>
    /\ \A i \in 1..Len(args.expected) :
         /\ args.expected[i].denom \in DOMAIN args.self
         /\ args.self[args.expected[i].denom] = args.expected[i].amount
    /\ DOMAIN args.self = {args.expected[i].denom : i \in 1..Len(args.expected)}

(***************************************************************************)
(* Claims about math.rs                                                    *)
(***************************************************************************)

\* The denoms both balances hold.
Shared(l, r) == DOMAIN l \cap DOMAIN r

\* a + b > 2^128 - 1, stated as b > (2^128 - 1) - a.
SumExceedsMax(a, b) == Less(Sub(U128Max, a).bytes, b)

\* s is the sum a + b as natural numbers: s - a is b, with nothing borrowed.
IsSum(s, a, b) == Sub(s, a) = [bytes |-> b, borrow |-> 0]

\* C10: try_plus(L, R) returns Overflow if and only if some shared denom has
\* L[d] + R[d] above 2^128 - 1, and otherwise L with every shared denom set
\* to the sum; try_minus(L, R) returns Underflow if and only if some shared
\* denom has R[d] > L[d], and otherwise L with every shared denom set to the
\* difference.  No returned amount is a wrapped one: a sum is never below,
\* and a difference never above, the amount it started from.
C10_CheckedNeverWraps ==
  LET l == args.self
      r == args.other
  IN /\ op = "try_plus_coin_set" =>
          IF \E d \in Shared(l, r) : SumExceedsMax(l[d], r[d])
            THEN ~ret.ok /\ ret.err = "Overflow"
            ELSE /\ ret.ok
                 /\ DOMAIN ret.val = DOMAIN l
                 /\ \A d \in DOMAIN l :
                      /\ d \in DOMAIN r => IsSum(ret.val[d], l[d], r[d])
                      /\ d \notin DOMAIN r => ret.val[d] = l[d]
                      /\ ~Less(ret.val[d], l[d])
     /\ op = "try_minus_coin_set" =>
          IF \E d \in Shared(l, r) : Less(l[d], r[d])
            THEN ~ret.ok /\ ret.err = "Underflow"
            ELSE /\ ret.ok
                 /\ DOMAIN ret.val = DOMAIN l
                 /\ \A d \in DOMAIN l :
                      /\ d \in DOMAIN r => IsSum(l[d], ret.val[d], r[d])
                      /\ d \notin DOMAIN r => ret.val[d] = l[d]
                      /\ ~Less(l[d], ret.val[d])

\* C10 witness: an addition overflowed on one shared denom while another
\* shared denom could be added, and Overflow came back.
C10_Witness ==
  /\ op = "try_plus_coin_set"
  /\ \E d, e \in Shared(args.self, args.other) :
       /\ SumExceedsMax(args.self[d], args.other[d])
       /\ args.other[e] # U128(0)
       /\ ~SumExceedsMax(args.self[e], args.other[e])
  /\ ~ret.ok /\ ret.err = "Overflow"

\* C11: the in-place add of a single coin is addition.  For a denom the
\* balance holds it sets the amount to old + coin.amount, or fails with
\* Overflow when that exceeds 2^128 - 1; for every balance and coin it fails
\* exactly when the immutable try_plus fails, and otherwise leaves the balance
\* equal to the value try_plus returns.
C11_InPlaceAddIsAddition ==
  op = "try_plus_mut_coin" =>
    LET l == args.self
        d == args.other.denom
        p == try_plus_coin(l, args.other)
    IN /\ ret.ret.ok <=> p.ok
       /\ p.ok => ret.self = p.val
       /\ d \in DOMAIN l =>
            IF SumExceedsMax(l[d], args.other.amount)
              THEN ~ret.ret.ok /\ ret.ret.err = "Overflow"
              ELSE IsSum(ret.self[d], l[d], args.other.amount)

\* The balance other without the denoms the balance self does not hold.
OnlyShared(self, other) == [d \in Shared(self, other) |-> other[d]]

\* C12: the arithmetic never changes which denoms the left-hand balance
\* holds.  After a run of in-place calls, successful or failing, the balance
\* holds exactly the denoms it held before the first of them; a balance
\* returned by try_plus or try_minus holds exactly the denoms of the balance
\* it was computed from; a denom brought to zero stays; and a right-hand
\* denom the left-hand balance does not hold changes neither the outcome nor
\* any amount.
C12_ExistingDenomsOnly ==
  /\ op \in InPlaceOps => DOMAIN ret.self = args.denoms
  /\ (op \in {"try_plus_coin", "try_minus_coin",
               "try_plus_coin_set", "try_minus_coin_set"} /\ ret.ok) =>
       DOMAIN ret.val = DOMAIN args.self
  /\ (op \in {"try_plus_mut_coin", "try_minus_mut_coin"}
        /\ args.other.denom \notin DOMAIN args.self) =>
       ret = Mut(args.self, Ok(Unit))
  /\ (op \in {"try_plus_coin", "try_minus_coin"}
        /\ args.other.denom \notin DOMAIN args.self) =>
       ret = Ok(args.self)
  /\ op = "try_plus_mut_coin_set" =>
       ret = try_plus_mut_coin_set(args.self, OnlyShared(args.self, args.other))
  /\ op = "try_minus_mut_coin_set" =>
       ret = try_minus_mut_coin_set(args.self, OnlyShared(args.self, args.other))
  /\ op = "try_plus_coin_set" =>
       ret = try_plus_coin_set(args.self, OnlyShared(args.self, args.other))
  /\ op = "try_minus_coin_set" =>
       ret = try_minus_coin_set(args.self, OnlyShared(args.self, args.other))

\* C12 witness: a later call on a held balance was handed a denom the balance
\* does not hold, and left the balance holding a denom at zero that was not
\* at zero before the call.
C12_Witness ==
  /\ op \in {"try_plus_mut_coin_set", "try_minus_mut_coin_set"}
  /\ args.calls >= 2
  /\ DOMAIN args.other \ DOMAIN args.self # {}
  /\ \E d \in DOMAIN ret.self :
       ret.self[d] = U128(0) /\ args.self[d] # U128(0)

\* The in-place calls that take a whole balance as right-hand operand.
CompoundOps == {"try_plus_mut_coin_set", "try_minus_mut_coin_set"}

\* Denom d is held by both balances and call o cannot update it: the sum is
\* above 2^128 - 1, or the amount to subtract is above the amount held.
Offends(o, l, r, d) ==
  /\ d \in Shared(l, r)
  /\ IF o = "try_plus_mut_coin_set"
       THEN SumExceedsMax(l[d], r[d])
       ELSE Less(l[d], r[d])

\* Call o has updated the amount old by amt, giving new.
Updated(o, new, old, amt) ==
  IF o = "try_plus_mut_coin_set" THEN IsSum(new, old, amt) ELSE IsSum(old, new, amt)

\* The error call o reports.
ErrorOf(o) == IF o = "try_plus_mut_coin_set" THEN "Overflow" ELSE "Underflow"

\* The place of denom d in denom order.
Pos(d) == CHOOSE i \in 1..Len(DenomOrder) : DenomOrder[i] = d

\* C13 as stated: an in-place call with a whole balance as right-hand operand
\* stops at the first offending denom.  It returns the error, the shared
\* denoms before the first offending one in denom order hold their updated
\* amounts, and the offending denom and every denom after it hold the amounts
\* they had before the call.
C13_AbortAtFirstOffender ==
  LET l == args.self
      r == args.other
  IN (op \in CompoundOps /\ \E d \in DOMAIN l : Offends(op, l, r, d)) =>
       LET f == CHOOSE d \in DOMAIN l :
                  /\ Offends(op, l, r, d)
                  /\ \A e \in DOMAIN l : Offends(op, l, r, e) => Pos(d) <= Pos(e)
       IN /\ ~ret.ret.ok /\ ret.ret.err = ErrorOf(op)
          /\ DOMAIN ret.self = DOMAIN l
          /\ \A d \in DOMAIN l :
               IF d \in DOMAIN r /\ Pos(d) < Pos(f)
                 THEN Updated(op, ret.self[d], l[d], r[d])
                 ELSE ret.self[d] = l[d]

\* C13 amended: an in-place call with a whole balance as right-hand operand
\* visits every denom of the operand and does not stop at an offending one.
\* It returns the error if and only if some shared denom offends; every
\* offending denom and every denom the operand does not hold keeps its
\* amount; every other shared denom, before or after an offending one, holds
\* its updated amount.
C13_OffendersSkipped ==
  LET l == args.self
      r == args.other
  IN op \in CompoundOps =>
       /\ IF \E d \in DOMAIN l : Offends(op, l, r, d)
            THEN ~ret.ret.ok /\ ret.ret.err = ErrorOf(op)
            ELSE ret.ret = Ok(Unit)
       /\ DOMAIN ret.self = DOMAIN l
       /\ \A d \in DOMAIN l :
            IF d \in DOMAIN r /\ ~Offends(op, l, r, d)
              THEN Updated(op, ret.self[d], l[d], r[d])
              ELSE ret.self[d] = l[d]

\* C13 witness: a subtraction in place failed on the first denom and changed
\* the amount of a denom after it.
C13_Witness ==
  /\ op = "try_minus_mut_coin_set"
  /\ ~ret.ret.ok
  /\ \E d, e \in Shared(args.self, args.other) :
       /\ Pos(d) < Pos(e)
       /\ Offends(op, args.self, args.other, d)
       /\ ret.self[e] # args.self[e]

(***************************************************************************)
(* Claims about fund.rs and the fan-out of coin.rs                         *)
(***************************************************************************)

\* The amount a balance holds of a denom, 0 when it does not hold it.
AmountOf(coins, d) == IF d \in DOMAIN coins THEN coins[d] ELSE U128(0)

\* An amount with a 17th byte, in which a sum of amounts cannot wrap.
Widen(a) == a \o <<0>>

\* The total of denom d over the coins of a Vec<Coin>, widened.
RECURSIVE VecSum(_, _)
VecSum(coins, d) ==
  IF coins = <<>> THEN Widen(U128(0))
  ELSE Add(Widen(IF Head(coins).denom = d THEN Head(coins).amount ELSE U128(0)),
           VecSum(Tail(coins), d)).bytes

\* The total of denom d over the outputs of a multi-send message, widened.
RECURSIVE OutputSum(_, _)
OutputSum(outputs, d) ==
  IF outputs = <<>> THEN Widen(U128(0))
  ELSE Add(VecSum(Head(outputs).coins, d), OutputSum(Tail(outputs), d)).bytes

\* C1: for a distribution with at least one claim and total bps <= 10000 and
\* for any funds, distribute_coins succeeds and its outputs, summed per denom
\* over all principals, equal funds exactly.
C1_DistributionConservation ==
  (/\ op = "distribute_coins"
   /\ DOMAIN args.self # {}
   /\ bps_sum(args.self, DOMAIN args.self) <= FullBps) =>
    /\ ret.ok
    /\ \A d \in Denoms :
         OutputSum(ret.val.value.outputs, d) = Widen(AmountOf(args.funds, d))

\* C2: for a distribution whose bps sum exceeds 10000 and for any funds, the
\* empty balance included, distribute_coins returns an error and no message.
C2_OverclaimRejected ==
  (/\ op = "distribute_coins"
   /\ bps_sum(args.self, DOMAIN args.self) > FullBps) =>
    ~ret.ok

\* C3: whenever send_coins_many returns Ok, every denom's outputs sum to its
\* amount in the input balance, and no output carries a denom the input
\* balance does not hold.
C3_FanOutInputEqualsOutput ==
  (op = "send_coins_many" /\ ret.ok) =>
    LET outputs == ret.val.value.outputs
    IN /\ \A d \in Denoms : OutputSum(outputs, d) = Widen(AmountOf(args.coins, d))
       /\ \A i \in 1..Len(outputs) : \A j \in 1..Len(outputs[i].coins) :
            outputs[i].coins[j].denom \in DOMAIN args.coins

\* C4: Claim(10000).claim_amount(total) = total for every total,
\* Claim(0).claim_amount(total) = 0 for every total, and
\* Claim(5000).claim_amount(100) = 50.
C4_ClaimExactness ==
  op = "claim_amount" =>
    /\ args.self = FullBps => (ret.ok /\ ret.val = args.total)
    /\ args.self = 0 => (ret.ok /\ ret.val = U128(0))
    /\ (args.self = 5000 /\ args.total = U128(100)) => (ret.ok /\ ret.val = U128(50))

\* The bps of a claim, or the first bps past 100% when it is beyond that.
Capped(b) == IF b > FullBps THEN FullBps + 1 ELSE b

\* The claims of the distribution sum, as natural numbers, to more than 100%.
Overclaimed(self) ==
  bps_sum([a \in DOMAIN self |-> Capped(self[a])], DOMAIN self) > FullBps

\* C14: with_remainder_to(addr) fails with DistributionOverclaimed when the
\* claims sum to more than 10000 bps.  Otherwise it returns a distribution
\* whose claims sum to exactly 10000 bps, in which addr holds what it held
\* before (0 if it held no claim) plus 10000 minus the previous total and
\* every other principal holds what it held before.
C14_RemainderTopUp ==
  op = "with_remainder_to" =>
    LET self == args.self
        addr == args.addr
    IN IF Overclaimed(self)
         THEN ~ret.ok /\ ret.err = "DistributionOverclaimed"
         ELSE /\ ret.ok
              /\ DOMAIN ret.val = DOMAIN self \cup {addr}
              /\ bps_sum(ret.val, DOMAIN ret.val) = FullBps
              /\ ret.val[addr] =
                   (IF addr \in DOMAIN self THEN self[addr] ELSE 0)
                     + FullBps - bps_sum(self, DOMAIN self)
              /\ \A a \in DOMAIN self \ {addr} : ret.val[a] = self[a]

\* C15: expect_funds asks for at least the expected amounts.  For funds
\* without a duplicate denom it succeeds if and only if expect_coins on the
\* balance of the funds does: every expected coin's denom is among the funds
\* with an amount not below the expected one, funds above the expected amount
\* being accepted.  expect_funds_exact succeeds only if every expected coin
\* is among the funds with exactly the expected amount.
C15_ExpectFundsAtLeast ==
  /\ (op = "expect_funds" /\ ~HasDuplicate(args.funds)) =>
       LET held == fund_set(args.funds).val
       IN /\ ret.ok <=> expect_coins(held, args.expected).ok
          /\ ret.ok <=>
               \A i \in 1..Len(args.expected) :
                 /\ args.expected[i].denom \in DOMAIN held
                 /\ ~Less(held[args.expected[i].denom], args.expected[i].amount)
  /\ (op = "expect_funds_exact" /\ ~HasDuplicate(args.funds) /\ ret.ok) =>
       LET held == fund_set(args.funds).val
       IN \A i \in 1..Len(args.expected) :
            /\ args.expected[i].denom \in DOMAIN held
            /\ held[args.expected[i].denom] = args.expected[i].amount

\* floor(total * bps / div) for bps <= div, computed without forming
\* total * bps: with total = q * div + r it is q * bps + floor(r * bps / div).
WideMulDiv(total, bps, div) ==
  LET q == Div(total, div)
  IN Add(Mul(q.bytes, bps).bytes, U128((q.rem * bps) \div div)).bytes

\* C5: for every bps in 0..10000 and every total, claim_amount returns
\* Ok(floor(total * bps / 100000)); it never returns Overflow, the quotient
\* always fitting in 128 bits, even when total * bps exceeds 2^128 - 1.
C5_NoSpuriousOverflow ==
  (op = "claim_amount" /\ args.self \in 0..FullBps) =>
    /\ ret.ok
    /\ ret.val = WideMulDiv(args.total, args.self, ClaimDivisor)

====
